---- MODULE Spec2Model ----
(***************************************************************************)
(* The console subsystem of richter (src/console.rs): the command          *)
(* registry, the cvar registry, the line editor (ConsoleInput), the        *)
(* History and the Console that owns one editor and one history.           *)
(*                                                                         *)
(* A Vec<char> (and the String collected from it) is a sequence of         *)
(* one-character strings; a name or token (&str) is a TLA+ string.  Every  *)
(* method is an operator from the receiver (self) to the receiver after    *)
(* the call (and the value returned); the actions apply the operators to   *)
(* the variables.                                                          *)
(***************************************************************************)
EXTENDS Integers, Sequences, FiniteSets, TLC

VARIABLES
    cmds,      \* the CmdRegistry [cmds: name -> handler]
    execs,     \* the exec_cmd calls made so far: <<name, args>>
    calls,     \* the handler invocations made so far: <<handler, args>>
    cvars,     \* the CvarRegistry [cvars: name -> Cvar]
    input,     \* Console.input : ConsoleInput [text, curs]
    hist,      \* Console.hist  : History [lines, curs]
    last,      \* the last call made: [op, arg, ret]
    panicked,  \* an index was out of bounds (the thread panicked)
    pc         \* position of the History scenario driver

vars == <<cmds, execs, calls, cvars, input, hist, last, panicked, pc>>

----------------------------------------------------------------------------
(* Bounds *)

MaxLen == 3        \* longest edit buffer typed
MaxHistChars == 3  \* most characters the Console commits to its history
MaxHist == 3       \* most lines added to a History driven alone
MaxCalls == 2      \* most exec_cmd calls logged

----------------------------------------------------------------------------
(* Characters, keys and values *)

CR == "CR"         \* '\r'
BS == "BS"         \* '\x08'
DEL == "DEL"       \* '\x7f'
TAB == "TAB"       \* '\t'

Printable == {"a"}
Whitespace == {" "}
TextChars == Printable \cup Whitespace
Chars == TextChars \cup {CR, BS, DEL, TAB}

Keys == {"Up", "Down", "Left", "Right", "Escape"}

\* The Vec<char> values of length at most n over the set S
SeqsUpTo(S, n) == UNION {[1..k -> S] : k \in 0..n}

\* The characters inserted into a ConsoleInput driven alone
InputChars == {"a", "b"}

\* The lines added to a History driven alone
HistLines == {<<>>, <<"a">>, <<"b">>, <<"a", "b">>}

\* The lines of the History scenario
ScenarioLines == {<<"a">>, <<"b">>, <<"a", "b">>, <<"b", "a">>, <<"b", " ">>}

\* char::is_whitespace, on the characters of the model
is_whitespace(c) == c \in Whitespace \cup {CR, TAB}

\* Result<(), ()> and Option<T>
Ok == "Ok"
Err == "Err"
None == <<>>
Some(x) == <<x>>

Call(op, arg, ret) == [op |-> op, arg |-> arg, ret |-> ret]

----------------------------------------------------------------------------
(* ConsoleInput *)

InputNew == [text |-> <<>>, curs |-> 0]

\* Vec::insert(index, element); panics if index > len
VecInsert(v, i, c) == SubSeq(v, 1, i) \o <<c>> \o SubSeq(v, i + 1, Len(v))

\* Vec::remove(index); panics if index >= len
VecRemove(v, i) == SubSeq(v, 1, i) \o SubSeq(v, i + 2, Len(v))

get_text(self) == self.text

\* set_text that replaces the text and leaves the cursor where it was
set_text_keep_curs(self, text) == [text |-> text, curs |-> self.curs]

\* set_text that leaves the cursor at the start of the new text
set_text_curs_start(self, text) == [text |-> text, curs |-> 0]

set_text(self, text) == [text |-> text, curs |-> Len(text)]

\* cursor_right without the check against the end of the text
cursor_right_unclamped(self) == [self EXCEPT !.curs = @ + 1]

cursor_right(self) ==
    IF self.curs < Len(self.text)
    THEN [self EXCEPT !.curs = @ + 1]
    ELSE self

cursor_left(self) ==
    IF self.curs > 0
    THEN [self EXCEPT !.curs = @ - 1]
    ELSE self

insert_panics(self) == self.curs > Len(self.text)

insert(self, c) ==
    IF insert_panics(self) THEN self
    ELSE cursor_right([self EXCEPT !.text = VecInsert(self.text, self.curs, c)])

\* delete that removes the last character (Vec::pop) whatever the cursor
delete_last(self) ==
    IF self.curs < Len(self.text)
    THEN [self EXCEPT !.text = SubSeq(self.text, 1, Len(self.text) - 1)]
    ELSE self

delete(self) ==
    IF self.curs < Len(self.text)
    THEN [self EXCEPT !.text = VecRemove(self.text, self.curs)]
    ELSE self

backspace_panics(self) == self.curs > 0 /\ self.curs - 1 >= Len(self.text)

\* backspace that removes the character and leaves the cursor where it was
backspace_keep_curs(self) ==
    IF backspace_panics(self) THEN self
    ELSE IF self.curs > 0
         THEN [self EXCEPT !.text = VecRemove(self.text, self.curs - 1)]
         ELSE self

backspace(self) ==
    IF backspace_panics(self) THEN self
    ELSE IF self.curs > 0
         THEN [text |-> VecRemove(self.text, self.curs - 1), curs |-> self.curs - 1]
         ELSE self

clear(self) == [text |-> <<>>, curs |-> 0]

----------------------------------------------------------------------------
(* History *)

HistoryNew == [lines |-> <<>>, curs |-> 0]

\* add_line with push_back in place of push_front
add_line_back(self, line) == [lines |-> Append(self.lines, line), curs |-> 0]

\* add_line that does not reset the navigation cursor
add_line_keep_curs(self, line) ==
    [lines |-> <<line>> \o self.lines, curs |-> self.curs]

\* VecDeque::push_front
add_line(self, line) == [lines |-> <<line>> \o self.lines, curs |-> 0]

\* line_up that returns the line and forgets to advance the cursor
line_up_stale(self) ==
    IF Len(self.lines) = 0 \/ self.curs >= Len(self.lines)
    THEN [self |-> self, ret |-> None]
    ELSE [self |-> self, ret |-> Some(self.lines[self.curs + 1])]

\* line_up that checks only for an empty history
line_up_unbounded(self) ==
    IF Len(self.lines) = 0
    THEN [self |-> self, ret |-> None]
    ELSE [self |-> [self EXCEPT !.curs = @ + 1],
          ret  |-> IF self.curs + 1 <= Len(self.lines)
                   THEN Some(self.lines[self.curs + 1])
                   ELSE None]

\* The value is [self |-> the history after the call, ret |-> Option<Vec<char>>]
line_up(self) ==
    IF Len(self.lines) = 0 \/ self.curs >= Len(self.lines)
    THEN [self |-> self, ret |-> None]
    ELSE [self |-> [self EXCEPT !.curs = @ + 1],
          ret  |-> Some(self.lines[self.curs + 1])]

\* self.curs after the conditional decrement of line_down
line_down_curs(self) == IF self.curs > 0 THEN self.curs - 1 ELSE self.curs

\* lines[curs - 1] is out of bounds
line_down_panics(self) == line_down_curs(self) > Len(self.lines)

\* line_down that returns lines[curs] in place of lines[curs - 1]
line_down_off_by_one(self) ==
    LET curs == line_down_curs(self) IN
    IF line_down_panics(self) THEN [self |-> self, ret |-> None]
    ELSE [self |-> [self EXCEPT !.curs = curs],
          ret  |-> IF curs > 0
                   THEN IF curs + 1 <= Len(self.lines)
                        THEN Some(self.lines[curs + 1])
                        ELSE None
                   ELSE Some(<<>>)]

line_down(self) ==
    LET curs == line_down_curs(self) IN
    IF line_down_panics(self) THEN [self |-> self, ret |-> None]
    ELSE [self |-> [self EXCEPT !.curs = curs],
          ret  |-> IF curs > 0 THEN Some(self.lines[curs]) ELSE Some(<<>>)]

----------------------------------------------------------------------------
(* Console *)

ConsoleNew == [input |-> InputNew, hist |-> HistoryNew]

\* String::from_iter over chars: the string made of the characters in order
RECURSIVE from_iter(_)
from_iter(chars) ==
    IF chars = <<>> THEN "" ELSE Head(chars) \o from_iter(Tail(chars))

get_string(self) == self.input.text

\* str::split_whitespace, collected: the maximal runs of non-whitespace
\* characters, in order.  cur is the run being read.
RECURSIVE split_from(_, _)
split_from(chars, cur) ==
    IF chars = <<>>
    THEN IF cur = <<>> THEN <<>> ELSE <<from_iter(cur)>>
    ELSE IF is_whitespace(Head(chars))
         THEN IF cur = <<>>
              THEN split_from(Tail(chars), <<>>)
              ELSE <<from_iter(cur)>> \o split_from(Tail(chars), <<>>)
         ELSE split_from(Tail(chars), Append(cur, Head(chars)))

split_whitespace(entered) == split_from(entered, <<>>)

\* text[..curs] and text[curs..] are out of bounds
debug_string_panics(self) == self.input.curs > Len(self.input.text)

\* commit without the early return on a line with no token
commit_no_discard(self) ==
    [input |-> clear(self.input),
     hist  |-> add_line(self.hist, get_text(self.input))]

\* commit whose early return on a line with no token is replaced by clearing
\* the prompt and ending the history browse
commit_blank_clears(self) ==
    IF split_whitespace(get_string(self)) = <<>>
    THEN [input |-> clear(self.input),
          hist  |-> [self.hist EXCEPT !.curs = 0]]
    ELSE [input |-> clear(self.input),
          hist  |-> add_line(self.hist, get_text(self.input))]

\* The '\r' arm of send_char.  cmd_name and args are computed and dropped.
commit(self) ==
    LET entered == get_string(self)
        parts == split_whitespace(entered)
    IN  IF parts = <<>>
        THEN self
        ELSE LET cmd_name == Head(parts)
                 args == Tail(parts)
             IN  [input |-> clear(self.input),
                  hist  |-> add_line(self.hist, get_text(self.input))]

\* send_char without the '\t' arm: the tab is inserted like any character
send_char_tab_inserted(self, c) ==
    CASE c = CR  -> commit(self)
      [] c = BS  -> [self EXCEPT !.input = backspace(self.input)]
      [] c = DEL -> [self EXCEPT !.input = delete(self.input)]
      [] OTHER   -> [self EXCEPT !.input = insert(self.input, c)]

\* send_char with the backspace and delete arms exchanged
send_char_swapped(self, c) ==
    CASE c = CR  -> commit(self)
      [] c = BS  -> [self EXCEPT !.input = delete(self.input)]
      [] c = DEL -> [self EXCEPT !.input = backspace(self.input)]
      [] c = TAB -> self
      [] OTHER   -> [self EXCEPT !.input = insert(self.input, c)]

\* send_char whose insert arm also ends the history browse
send_char_insert_resets_hist(self, c) ==
    CASE c = CR  -> commit(self)
      [] c = BS  -> [self EXCEPT !.input = backspace(self.input)]
      [] c = DEL -> [self EXCEPT !.input = delete(self.input)]
      [] c = TAB -> self
      [] OTHER   -> [input |-> insert(self.input, c),
                     hist  |-> [self.hist EXCEPT !.curs = 0]]

send_char(self, c) ==
    CASE c = CR  -> commit(self)
      [] c = BS  -> [self EXCEPT !.input = backspace(self.input)]
      [] c = DEL -> [self EXCEPT !.input = delete(self.input)]
      [] c = TAB -> self
      [] OTHER   -> [self EXCEPT !.input = insert(self.input, c)]

send_char_panics(self, c) ==
    \/ c = BS /\ backspace_panics(self.input)
    \/ c \notin {CR, BS, DEL, TAB} /\ insert_panics(self.input)
    \/ /\ ~(c = CR /\ split_whitespace(get_string(self)) = <<>>)
       /\ debug_string_panics(send_char(self, c))

\* send_key whose Down arm installs only a non-empty line
send_key_down_skips_empty(self, key) ==
    CASE key = "Up" ->
            LET r == line_up(self.hist) IN
            IF r.ret # None
            THEN [input |-> set_text(self.input, r.ret[1]), hist |-> r.self]
            ELSE [self EXCEPT !.hist = r.self]
      [] key = "Down" ->
            LET r == line_down(self.hist) IN
            IF r.ret # None /\ r.ret # Some(<<>>)
            THEN [input |-> set_text(self.input, r.ret[1]), hist |-> r.self]
            ELSE [self EXCEPT !.hist = r.self]
      [] key = "Right" -> [self EXCEPT !.input = cursor_right(self.input)]
      [] key = "Left"  -> [self EXCEPT !.input = cursor_left(self.input)]
      [] OTHER -> self

\* send_key with the Left and Right arms exchanged
send_key_swapped(self, key) ==
    CASE key = "Up" ->
            LET r == line_up(self.hist) IN
            IF r.ret # None
            THEN [input |-> set_text(self.input, r.ret[1]), hist |-> r.self]
            ELSE [self EXCEPT !.hist = r.self]
      [] key = "Down" ->
            LET r == line_down(self.hist) IN
            IF r.ret # None
            THEN [input |-> set_text(self.input, r.ret[1]), hist |-> r.self]
            ELSE [self EXCEPT !.hist = r.self]
      [] key = "Right" -> [self EXCEPT !.input = cursor_left(self.input)]
      [] key = "Left"  -> [self EXCEPT !.input = cursor_right(self.input)]
      [] OTHER -> self

send_key(self, key) ==
    CASE key = "Up" ->
            LET r == line_up(self.hist) IN
            IF r.ret # None
            THEN [input |-> set_text(self.input, r.ret[1]), hist |-> r.self]
            ELSE [self EXCEPT !.hist = r.self]
      [] key = "Down" ->
            LET r == line_down(self.hist) IN
            IF r.ret # None
            THEN [input |-> set_text(self.input, r.ret[1]), hist |-> r.self]
            ELSE [self EXCEPT !.hist = r.self]
      [] key = "Right" -> [self EXCEPT !.input = cursor_right(self.input)]
      [] key = "Left"  -> [self EXCEPT !.input = cursor_left(self.input)]
      [] OTHER -> self

send_key_panics(self, key) ==
    \/ key = "Down" /\ line_down_panics(self.hist)
    \/ /\ key \in {"Up", "Down", "Left", "Right"}
       /\ debug_string_panics(send_key(self, key))

----------------------------------------------------------------------------
(* CmdRegistry *)

CmdNames == {"set", "quit"}
Handlers == {"h1", "h2"}
ArgLists == {<<>>, <<"fov">>, <<"fov", "90">>, <<"90", "fov">>}

\* HashMap::insert
MapInsert(m, k, v) == [x \in DOMAIN m \cup {k} |-> IF x = k THEN v ELSE m[x]]

EmptyMap == [x \in {} |-> 0]

CmdRegistryNew == [cmds |-> EmptyMap]

\* add_cmd that replaces the handler stored under a registered name
add_cmd_overwrite(self, name, cmd) ==
    [self |-> [cmds |-> MapInsert(self.cmds, name, cmd)],
     ret  |-> IF name \in DOMAIN self.cmds THEN Err ELSE Ok]

\* The value is [self, ret]
add_cmd(self, name, cmd) ==
    IF name \in DOMAIN self.cmds
    THEN [self |-> self, ret |-> Err]
    ELSE [self |-> [cmds |-> MapInsert(self.cmds, name, cmd)], ret |-> Ok]

\* exec_cmd that reports success for a name that is not registered
exec_cmd_unknown_ok(self, name, args) ==
    IF name \in DOMAIN self.cmds
    THEN [self |-> self, ret |-> Ok, invoked |-> << <<self.cmds[name], args>> >>]
    ELSE [self |-> self, ret |-> Ok, invoked |-> <<>>]

\* The value is [self, ret, invoked]; invoked lists the handler calls made
exec_cmd(self, name, args) ==
    IF name \in DOMAIN self.cmds
    THEN [self |-> self, ret |-> Ok, invoked |-> << <<self.cmds[name], args>> >>]
    ELSE [self |-> self, ret |-> Err, invoked |-> <<>>]

----------------------------------------------------------------------------
(* CvarRegistry *)

CvarNames == {"fov", "name"}
CvarValues == {"90", "110"}

Cvar(val, archive, info, default) ==
    [val |-> val, archive |-> archive, info |-> info, default |-> default]

CvarRegistryNew == [cvars |-> EmptyMap]

\* register that leaves the value of the new entry empty
register_no_value(self, name, default) ==
    IF name \in DOMAIN self.cvars
    THEN [self |-> self, ret |-> Err]
    ELSE [self |-> [cvars |-> MapInsert(self.cvars, name,
                                        Cvar("", FALSE, FALSE, default))],
          ret |-> Ok]

register(self, name, default) ==
    IF name \in DOMAIN self.cvars
    THEN [self |-> self, ret |-> Err]
    ELSE [self |-> [cvars |-> MapInsert(self.cvars, name,
                                        Cvar(default, FALSE, FALSE, default))],
          ret |-> Ok]

register_archive(self, name, default) ==
    IF name \in DOMAIN self.cvars
    THEN [self |-> self, ret |-> Err]
    ELSE [self |-> [cvars |-> MapInsert(self.cvars, name,
                                        Cvar(default, TRUE, FALSE, default))],
          ret |-> Ok]

\* register_updateinfo without the check for a registered name
register_updateinfo_overwrite(self, name, default) ==
    [self |-> [cvars |-> MapInsert(self.cvars, name,
                                   Cvar(default, FALSE, TRUE, default))],
     ret |-> IF name \in DOMAIN self.cvars THEN Err ELSE Ok]

register_updateinfo(self, name, default) ==
    IF name \in DOMAIN self.cvars
    THEN [self |-> self, ret |-> Err]
    ELSE [self |-> [cvars |-> MapInsert(self.cvars, name,
                                        Cvar(default, FALSE, TRUE, default))],
          ret |-> Ok]

\* register_archive_updateinfo that leaves the info flag unset
register_archive_updateinfo_noinfo(self, name, default) ==
    IF name \in DOMAIN self.cvars
    THEN [self |-> self, ret |-> Err]
    ELSE [self |-> [cvars |-> MapInsert(self.cvars, name,
                                        Cvar(default, TRUE, FALSE, default))],
          ret |-> Ok]

register_archive_updateinfo(self, name, default) ==
    IF name \in DOMAIN self.cvars
    THEN [self |-> self, ret |-> Err]
    ELSE [self |-> [cvars |-> MapInsert(self.cvars, name,
                                        Cvar(default, TRUE, TRUE, default))],
          ret |-> Ok]

\* get_value and set_value (called at main.rs:295) are not in console.rs;
\* they follow the contract of the CvarRegistry: both fail with
\* UnknownVariable on a name that is not registered, get_value returns the
\* current value and set_value overwrites it.
UnknownVariable == "UnknownVariable"

\* The value is [self, ret]; ret is <<Ok, value>> or <<UnknownVariable>>
get_value(self, name) ==
    IF name \in DOMAIN self.cvars
    THEN [self |-> self, ret |-> <<Ok, self.cvars[name].val>>]
    ELSE [self |-> self, ret |-> <<UnknownVariable>>]

\* The value is [self, ret]; ret is <<Ok>> or <<UnknownVariable>>
set_value(self, name, value) ==
    IF name \in DOMAIN self.cvars
    THEN [self |-> [cvars |-> [self.cvars EXCEPT ![name].val = value]],
          ret |-> <<Ok>>]
    ELSE [self |-> self, ret |-> <<UnknownVariable>>]

----------------------------------------------------------------------------
(* State after construction *)

console == [input |-> input, hist |-> hist]

Init ==
    /\ cmds = CmdRegistryNew
    /\ execs = <<>>
    /\ calls = <<>>
    /\ cvars = CvarRegistryNew
    /\ input = InputNew
    /\ hist = HistoryNew
    /\ last = Call("new", <<>>, Ok)
    /\ panicked = FALSE
    /\ pc = 0

----------------------------------------------------------------------------
(* The Console driven by character and key events *)

\* The number of characters in a sequence of lines
RECURSIVE StoredChars(_)
StoredChars(lines) ==
    IF lines = <<>> THEN 0 ELSE Len(Head(lines)) + StoredChars(Tail(lines))

SendChar(c) ==
    /\ ~panicked
    /\ Len(input.text) < MaxLen \/ c \notin TextChars
    /\ \/ c # CR
       \/ split_whitespace(get_string(console)) = <<>>
       \/ StoredChars(hist.lines) + Len(input.text) <= MaxHistChars
    /\ LET after == send_char(console, c) IN
       /\ panicked' = send_char_panics(console, c)
       /\ input' = after.input
       /\ hist' = after.hist
       /\ last' = Call("send_char", <<c>>, Ok)
    /\ UNCHANGED <<cmds, execs, calls, cvars, pc>>

SendKey(key) ==
    /\ ~panicked
    /\ LET after == send_key(console, key) IN
       /\ panicked' = send_key_panics(console, key)
       /\ input' = after.input
       /\ hist' = after.hist
       /\ last' = Call("send_key", <<key>>, Ok)
    /\ UNCHANGED <<cmds, execs, calls, cvars, pc>>

Next ==
    \/ \E c \in Chars : SendChar(c)
    \/ \E key \in Keys : SendKey(key)

Spec == Init /\ [][Next]_vars

----------------------------------------------------------------------------
(* A ConsoleInput driven by its own methods *)

Insert(c) ==
    /\ ~panicked
    /\ Len(input.text) < MaxLen
    /\ panicked' = insert_panics(input)
    /\ input' = insert(input, c)
    /\ last' = Call("insert", <<c>>, Ok)
    /\ UNCHANGED <<cmds, execs, calls, cvars, hist, pc>>

CursorLeft ==
    /\ ~panicked
    /\ input' = cursor_left(input)
    /\ last' = Call("cursor_left", <<>>, Ok)
    /\ UNCHANGED <<cmds, execs, calls, cvars, hist, panicked, pc>>

CursorRight ==
    /\ ~panicked
    /\ input' = cursor_right(input)
    /\ last' = Call("cursor_right", <<>>, Ok)
    /\ UNCHANGED <<cmds, execs, calls, cvars, hist, panicked, pc>>

Delete ==
    /\ ~panicked
    /\ input' = delete(input)
    /\ last' = Call("delete", <<>>, Ok)
    /\ UNCHANGED <<cmds, execs, calls, cvars, hist, panicked, pc>>

Backspace ==
    /\ ~panicked
    /\ panicked' = backspace_panics(input)
    /\ input' = backspace(input)
    /\ last' = Call("backspace", <<>>, Ok)
    /\ UNCHANGED <<cmds, execs, calls, cvars, hist, pc>>

NextInput ==
    \/ \E c \in InputChars : Insert(c)
    \/ CursorLeft
    \/ CursorRight
    \/ Delete
    \/ Backspace

SpecInput == Init /\ [][NextInput]_vars

----------------------------------------------------------------------------
(* A History driven by its own methods *)

AddLine(line) ==
    /\ ~panicked
    /\ Len(hist.lines) < MaxHist
    /\ hist' = add_line(hist, line)
    /\ last' = Call("add_line", <<line>>, Ok)
    /\ UNCHANGED <<cmds, execs, calls, cvars, input, panicked, pc>>

LineUp ==
    /\ ~panicked
    /\ LET r == line_up(hist) IN
       /\ hist' = r.self
       /\ last' = Call("line_up", <<>>, r.ret)
    /\ UNCHANGED <<cmds, execs, calls, cvars, input, panicked, pc>>

LineDown ==
    /\ ~panicked
    /\ LET r == line_down(hist) IN
       /\ panicked' = line_down_panics(hist)
       /\ hist' = r.self
       /\ last' = Call("line_down", <<>>, r.ret)
    /\ UNCHANGED <<cmds, execs, calls, cvars, input, pc>>

NextHist ==
    \/ \E line \in HistLines : AddLine(line)
    \/ LineUp
    \/ LineDown

SpecHist == Init /\ [][NextHist]_vars

----------------------------------------------------------------------------
(* The History scenario: add_line, add_line, line_up x3, line_down x2 *)

ScenarioAddLine(line) ==
    /\ pc \in {0, 1}
    /\ hist' = add_line(hist, line)
    /\ last' = Call("add_line", <<line>>, Ok)
    /\ pc' = pc + 1
    /\ UNCHANGED <<cmds, execs, calls, cvars, input, panicked>>

ScenarioLineUp ==
    /\ pc \in {2, 3, 4}
    /\ LET r == line_up(hist) IN
       /\ hist' = r.self
       /\ last' = Call("line_up", <<>>, r.ret)
    /\ pc' = pc + 1
    /\ UNCHANGED <<cmds, execs, calls, cvars, input, panicked>>

ScenarioLineDown ==
    /\ pc \in {5, 6}
    /\ ~line_down_panics(hist)
    /\ LET r == line_down(hist) IN
       /\ hist' = r.self
       /\ last' = Call("line_down", <<>>, r.ret)
    /\ pc' = pc + 1
    /\ UNCHANGED <<cmds, execs, calls, cvars, input, panicked>>

NextScenario ==
    \/ \E line \in ScenarioLines : ScenarioAddLine(line)
    \/ ScenarioLineUp
    \/ ScenarioLineDown

SpecScenario == Init /\ [][NextScenario]_vars

----------------------------------------------------------------------------
(* A CmdRegistry driven by add_cmd and exec_cmd *)

AddCmd(name, cmd) ==
    /\ LET r == add_cmd(cmds, name, cmd) IN
       /\ cmds' = r.self
       /\ last' = Call("add_cmd", <<name, cmd>>, r.ret)
    /\ UNCHANGED <<execs, calls, cvars, input, hist, panicked, pc>>

ExecCmd(name, args) ==
    /\ Len(execs) < MaxCalls
    /\ LET r == exec_cmd(cmds, name, args) IN
       /\ cmds' = r.self
       /\ execs' = Append(execs, <<name, args>>)
       /\ calls' = calls \o r.invoked
       /\ last' = Call("exec_cmd", <<name, args>>, r.ret)
    /\ UNCHANGED <<cvars, input, hist, panicked, pc>>

NextCmd ==
    \/ \E name \in CmdNames, cmd \in Handlers : AddCmd(name, cmd)
    \/ \E name \in CmdNames, args \in ArgLists : ExecCmd(name, args)

SpecCmd == Init /\ [][NextCmd]_vars

----------------------------------------------------------------------------
(* A CvarRegistry driven by its four registration entry points *)

Register(name, default) ==
    /\ LET r == register(cvars, name, default) IN
       /\ cvars' = r.self
       /\ last' = Call("register", <<name, default>>, r.ret)
    /\ UNCHANGED <<cmds, execs, calls, input, hist, panicked, pc>>

RegisterArchive(name, default) ==
    /\ LET r == register_archive(cvars, name, default) IN
       /\ cvars' = r.self
       /\ last' = Call("register_archive", <<name, default>>, r.ret)
    /\ UNCHANGED <<cmds, execs, calls, input, hist, panicked, pc>>

RegisterUpdateinfo(name, default) ==
    /\ LET r == register_updateinfo(cvars, name, default) IN
       /\ cvars' = r.self
       /\ last' = Call("register_updateinfo", <<name, default>>, r.ret)
    /\ UNCHANGED <<cmds, execs, calls, input, hist, panicked, pc>>

RegisterArchiveUpdateinfo(name, default) ==
    /\ LET r == register_archive_updateinfo(cvars, name, default) IN
       /\ cvars' = r.self
       /\ last' = Call("register_archive_updateinfo", <<name, default>>, r.ret)
    /\ UNCHANGED <<cmds, execs, calls, input, hist, panicked, pc>>

NextCvar ==
    \/ \E name \in CvarNames, default \in CvarValues : Register(name, default)
    \/ \E name \in CvarNames, default \in CvarValues : RegisterArchive(name, default)
    \/ \E name \in CvarNames, default \in CvarValues : RegisterUpdateinfo(name, default)
    \/ \E name \in CvarNames, default \in CvarValues :
          RegisterArchiveUpdateinfo(name, default)

SpecCvar == Init /\ [][NextCvar]_vars

----------------------------------------------------------------------------
(* A CvarRegistry driven by registration, get_value and set_value *)

GetValue(name) ==
    /\ LET r == get_value(cvars, name) IN
       /\ cvars' = r.self
       /\ last' = Call("get_value", <<name>>, r.ret)
    /\ UNCHANGED <<cmds, execs, calls, input, hist, panicked, pc>>

SetValue(name, value) ==
    /\ LET r == set_value(cvars, name, value) IN
       /\ cvars' = r.self
       /\ last' = Call("set_value", <<name, value>>, r.ret)
    /\ UNCHANGED <<cmds, execs, calls, input, hist, panicked, pc>>

NextCvarValues ==
    \/ \E name \in CvarNames, default \in CvarValues : Register(name, default)
    \/ \E name \in CvarNames, default \in CvarValues : RegisterArchive(name, default)
    \/ \E name \in CvarNames, default \in CvarValues : RegisterUpdateinfo(name, default)
    \/ \E name \in CvarNames, default \in CvarValues :
          RegisterArchiveUpdateinfo(name, default)
    \/ \E name \in CvarNames : GetValue(name)
    \/ \E name \in CvarNames, value \in CvarValues : SetValue(name, value)

SpecCvarValues == Init /\ [][NextCvarValues]_vars

----------------------------------------------------------------------------
(* Properties of the Console commit (send_char of '\r') *)

\* The step is a send_char(c) call
SentChar(c) == last'.op = "send_char" /\ last'.arg = <<c>>

\* The step is a send_key(key) call
SentKey(key) == last'.op = "send_key" /\ last'.arg = <<key>>

\* text holds at least one non-whitespace character
NonBlank(text) == \E i \in 1..Len(text) : ~is_whitespace(text[i])

\* C1: a carriage-return on a buffer with at least one token dispatches the
\* command named by the first token through the command registry exactly
\* once, with the remaining tokens as its arguments in order.
C1_CommitDispatches ==
    [][(SentChar(CR) /\ NonBlank(input.text)) =>
          LET parts == split_whitespace(input.text) IN
          execs' = Append(execs, <<Head(parts), Tail(parts)>>)]_vars

\* C2: a carriage-return on a buffer with a non-whitespace character makes
\* the buffer exactly as typed the front history line, the history cursor 0,
\* the edit buffer empty and the edit cursor 0.
C2_CommitState ==
    [][(SentChar(CR) /\ NonBlank(input.text)) =>
          /\ hist'.lines # <<>>
          /\ hist'.lines[1] = input.text
          /\ hist'.curs = 0
          /\ input'.text = <<>>
          /\ input'.curs = 0]_vars

\* C2 witness: a line with leading whitespace was committed in front of an
\* older, different line.
C2_Witness ==
    /\ last = Call("send_char", <<CR>>, Ok)
    /\ Len(hist.lines) >= 2
    /\ hist.lines[1] # hist.lines[2]
    /\ is_whitespace(hist.lines[1][1])
    /\ hist.curs = 0
    /\ input = InputNew

\* C6: a carriage-return on an empty or whitespace-only buffer adds no line
\* to history and dispatches no command.
C6_BlankCommit ==
    [][(SentChar(CR) /\ ~NonBlank(input.text)) =>
          /\ hist'.lines = hist.lines
          /\ execs' = execs
          /\ calls' = calls]_vars

\* C6 witness: the carriage-return was sent on a whitespace-only buffer,
\* with a line in history.
C6_Witness ==
    /\ last = Call("send_char", <<CR>>, Ok)
    /\ input.text # <<>>
    /\ ~NonBlank(input.text)
    /\ hist.lines # <<>>

----------------------------------------------------------------------------
(* Properties of the History scenario *)

\* C3 as stated: after add_line("a"), add_line("b"), the calls line_up,
\* line_up, line_up, line_down, line_down return "b", "a", nothing (cursor
\* staying at 2), "a" and the empty line.
C3_ScenarioAsStated ==
    hist.lines = << <<"b">>, <<"a">> >> =>
        /\ pc = 3 => last.ret = Some(<<"b">>)
        /\ pc = 4 => last.ret = Some(<<"a">>)
        /\ pc = 5 => last.ret = None /\ hist.curs = 2
        /\ pc = 6 => last.ret = Some(<<"a">>)
        /\ pc = 7 => last.ret = Some(<<>>)

\* C3 amended: after add_line(x), add_line(y), the calls line_up, line_up,
\* line_up, line_down, line_down return y, x, nothing (cursor staying at 2),
\* y and the empty line; with x = "a", y = "b": "b", "a", nothing, "b", "".
C3_Scenario ==
    pc >= 2 =>
        /\ Len(hist.lines) = 2
        /\ pc = 2 => hist.curs = 0
        /\ pc = 3 => last.ret = Some(hist.lines[1]) /\ hist.curs = 1
        /\ pc = 4 => last.ret = Some(hist.lines[2]) /\ hist.curs = 2
        /\ pc = 5 => last.ret = None /\ hist.curs = 2
        /\ pc = 6 => last.ret = Some(hist.lines[1]) /\ hist.curs = 1
        /\ pc = 7 => last.ret = Some(<<>>) /\ hist.curs = 0

\* C3 witness: the scenario with "a" and "b" has run to its end.
C3_Witness ==
    /\ pc = 7
    /\ hist.lines = << <<"b">>, <<"a">> >>
    /\ last = Call("line_down", <<>>, Some(<<>>))

----------------------------------------------------------------------------
(* Properties of the ConsoleInput *)

\* C4: after every call in any sequence of insert, cursor_left,
\* cursor_right, delete and backspace, 0 <= cursor <= length of the text.
C4_CursorInvariant ==
    /\ 0 <= input.curs
    /\ input.curs <= Len(input.text)
    /\ ~panicked

\* C4 witness: a delete in the middle of a text left the cursor on the new
\* end of the text.
C4_Witness ==
    /\ last.op = "delete"
    /\ input.curs = Len(input.text)
    /\ input.curs > 0
    /\ input.curs < MaxLen

\* C5: insert(c) immediately followed by backspace() yields exactly the
\* text and cursor before the insert.
C5_InsertBackspace ==
    [][last'.op = "insert" => backspace(input') = input]_vars

\* C5 witness: a character was inserted between two others.
C5_Witness ==
    /\ last.op = "insert"
    /\ input.curs = 2
    /\ Len(input.text) = 3
    /\ input.text[1] # input.text[2]
    /\ backspace(input).text = <<input.text[1], input.text[3]>>

\* C21: delete removes exactly the character at index cursor when cursor <
\* length, leaving the cursor and every other character, in order, as they
\* were; when cursor = length it changes neither the text nor the cursor.
C21_Delete ==
    [][last'.op = "delete" =>
          IF input.curs < Len(input.text)
          THEN /\ input'.curs = input.curs
               /\ Len(input'.text) = Len(input.text) - 1
               /\ \A i \in 1..input.curs : input'.text[i] = input.text[i]
               /\ \A i \in (input.curs + 1)..Len(input'.text) :
                     input'.text[i] = input.text[i + 1]
          ELSE input' = input]_vars

\* C21 witness: a delete at cursor 1 of three characters left two different
\* characters around the cursor.
C21_Witness ==
    /\ last.op = "delete"
    /\ input.curs = 1
    /\ Len(input.text) = 2
    /\ input.text[1] # input.text[2]

----------------------------------------------------------------------------
(* Properties of the CmdRegistry *)

\* C7: add_cmd with a name already present returns an error and leaves the
\* registry unchanged (exec_cmd still invokes the handler first registered);
\* add_cmd with an absent name inserts the handler and succeeds.
C7_AddCmd ==
    [][last'.op = "add_cmd" =>
          LET name == last'.arg[1]
              cmd == last'.arg[2]
          IN  IF name \in DOMAIN cmds.cmds
              THEN /\ last'.ret = Err
                   /\ cmds' = cmds
                   /\ \A args \in ArgLists :
                         exec_cmd(cmds', name, args).invoked
                            = << <<cmds.cmds[name], args>> >>
              ELSE /\ last'.ret = Ok
                   /\ DOMAIN cmds'.cmds = DOMAIN cmds.cmds \cup {name}
                   /\ cmds'.cmds[name] = cmd
                   /\ \A n \in DOMAIN cmds.cmds : cmds'.cmds[n] = cmds.cmds[n]]_vars

\* C7 witness: a second registration under a name, with another handler,
\* was rejected.
C7_Witness ==
    /\ last.op = "add_cmd"
    /\ last.ret = Err
    /\ last.arg[1] \in DOMAIN cmds.cmds
    /\ cmds.cmds[last.arg[1]] # last.arg[2]

\* C8: exec_cmd returns an error and invokes no handler when the name is not
\* registered; otherwise it invokes the handler stored under the name exactly
\* once with args in the same order and returns success; the registered names
\* do not change.
C8_ExecCmd ==
    [][last'.op = "exec_cmd" =>
          LET name == last'.arg[1]
              args == last'.arg[2]
          IN  /\ cmds' = cmds
              /\ IF name \in DOMAIN cmds.cmds
                 THEN /\ last'.ret = Ok
                      /\ calls' = Append(calls, <<cmds.cmds[name], args>>)
                 ELSE /\ last'.ret = Err
                      /\ calls' = calls]_vars

\* C8 witness: one exec_cmd failed on an unknown name and one invoked a
\* handler with two arguments.
C8_Witness ==
    /\ last.op = "exec_cmd"
    /\ Len(execs) = 2
    /\ Len(calls) = 1
    /\ calls[1][2] = <<"fov", "90">>
    /\ DOMAIN cmds.cmds # {}

----------------------------------------------------------------------------
(* Properties of the CvarRegistry *)

RegisterOps ==
    {"register", "register_archive", "register_updateinfo",
     "register_archive_updateinfo"}

\* C9: each registration entry point returns an error when the name is
\* already registered, whichever entry point registered it, and leaves the
\* existing entry unchanged; an entry's flags and default never change.
C9_DuplicateRejected ==
    [][/\ (last'.op \in RegisterOps /\ last'.arg[1] \in DOMAIN cvars.cvars) =>
             last'.ret = Err /\ cvars' = cvars
       /\ \A n \in DOMAIN cvars.cvars :
             /\ n \in DOMAIN cvars'.cvars
             /\ cvars'.cvars[n].archive = cvars.cvars[n].archive
             /\ cvars'.cvars[n].info = cvars.cvars[n].info
             /\ cvars'.cvars[n].default = cvars.cvars[n].default]_vars

\* C9 witness: register_updateinfo was rejected on a name registered through
\* register_archive, with another default.
C9_Witness ==
    /\ last.op = "register_updateinfo"
    /\ last.ret = Err
    /\ last.arg[1] \in DOMAIN cvars.cvars
    /\ cvars.cvars[last.arg[1]].archive
    /\ ~cvars.cvars[last.arg[1]].info
    /\ cvars.cvars[last.arg[1]].default # last.arg[2]

\* C10: a successful registration of an absent name creates an entry whose
\* value and default are the given default and whose (archive, info) flags
\* are those of the entry point; no other entry is changed.
C10_RegisterResult ==
    [][(last'.op \in RegisterOps /\ last'.arg[1] \notin DOMAIN cvars.cvars) =>
          LET name == last'.arg[1]
              default == last'.arg[2]
              archive == last'.op \in {"register_archive",
                                       "register_archive_updateinfo"}
              info == last'.op \in {"register_updateinfo",
                                    "register_archive_updateinfo"}
          IN  /\ last'.ret = Ok
              /\ DOMAIN cvars'.cvars = DOMAIN cvars.cvars \cup {name}
              /\ cvars'.cvars[name].val = default
              /\ cvars'.cvars[name].default = default
              /\ cvars'.cvars[name].archive = archive
              /\ cvars'.cvars[name].info = info
              /\ \A n \in DOMAIN cvars.cvars :
                    cvars'.cvars[n] = cvars.cvars[n]]_vars

\* C10 witness: register_archive_updateinfo created a second entry with
\* both flags set.
C10_Witness ==
    /\ last.op = "register_archive_updateinfo"
    /\ last.ret = Ok
    /\ Cardinality(DOMAIN cvars.cvars) = 2
    /\ cvars.cvars[last.arg[1]] = Cvar(last.arg[2], TRUE, TRUE, last.arg[2])

----------------------------------------------------------------------------
(* Properties of the History *)

\* C12: if the history is empty or the cursor equals the number of lines,
\* line_up reports no line and changes neither cursor nor lines; otherwise
\* it increments the cursor and returns the line at index cursor - 1 after
\* the increment, so the first line_up after an add_line returns the line
\* just added and the k-th returns the k-th most recent line.
C12_LineUp ==
    [][last'.op = "line_up" =>
          /\ IF Len(hist.lines) = 0 \/ hist.curs = Len(hist.lines)
             THEN /\ last'.ret = None
                  /\ hist' = hist
                  /\ line_up(hist') = [self |-> hist, ret |-> None]
             ELSE /\ hist'.curs = hist.curs + 1
                  /\ hist'.lines = hist.lines
                  /\ hist'.curs <= Len(hist.lines)
                  /\ last'.ret = Some(hist.lines[hist'.curs])
          /\ last.op = "add_line" => last'.ret = Some(last.arg[1])]_vars

\* C12 witness: line_up reported nothing at the oldest of three lines.
C12_Witness ==
    /\ last.op = "line_up"
    /\ last.ret = None
    /\ Len(hist.lines) = 3
    /\ hist.curs = 3
    /\ hist.lines[1] # hist.lines[3]

\* C13: line_down decrements the cursor if it is positive; it returns the
\* empty line if the cursor is then 0 and the line at index cursor - 1
\* otherwise; it always returns some line and never changes the lines.
C13_LineDown ==
    [][last'.op = "line_down" =>
          /\ hist'.curs = IF hist.curs > 0 THEN hist.curs - 1 ELSE 0
          /\ hist'.lines = hist.lines
          /\ last'.ret # None
          /\ ~panicked'
          /\ IF hist'.curs = 0
             THEN last'.ret = Some(<<>>)
             ELSE /\ hist'.curs <= Len(hist.lines)
                  /\ last'.ret = Some(hist.lines[hist'.curs])]_vars

\* C13 witness: line_down came back from the second line to the first, a
\* different and non-empty line.
C13_Witness ==
    /\ last.op = "line_down"
    /\ hist.curs = 1
    /\ Len(hist.lines) >= 2
    /\ hist.lines[1] # hist.lines[2]
    /\ hist.lines[1] # <<>>
    /\ last.ret = Some(hist.lines[1])

\* C17: after every call in any sequence of add_line, line_up and
\* line_down, 0 <= navigation cursor <= number of stored lines.
C17_HistCursorInvariant ==
    /\ 0 <= hist.curs
    /\ hist.curs <= Len(hist.lines)
    /\ ~panicked

\* C17 witness: line_down at cursor 0 of a non-empty history left it at 0.
C17_Witness ==
    /\ last.op = "line_down"
    /\ last.ret = Some(<<>>)
    /\ hist.curs = 0
    /\ Len(hist.lines) = MaxHist

\* C18: add_line puts the line at the front, keeps every stored line in its
\* order (the length grows by one, duplicates are kept) and resets the
\* navigation cursor to 0.
C18_AddLine ==
    [][last'.op = "add_line" =>
          /\ Len(hist'.lines) = Len(hist.lines) + 1
          /\ hist'.lines[1] = last'.arg[1]
          /\ Tail(hist'.lines) = hist.lines
          /\ hist'.curs = 0]_vars

\* C18 witness: a line equal to the front line was added in front of it.
C18_Witness ==
    /\ last.op = "add_line"
    /\ Len(hist.lines) = 3
    /\ hist.lines[1] = hist.lines[2]
    /\ hist.lines[2] # hist.lines[3]
    /\ hist.curs = 0

----------------------------------------------------------------------------
(* Properties of the Console events *)

\* C14: in every reachable console state the tab character leaves the edit
\* buffer text, the edit cursor, the history lines and the history cursor
\* unchanged.
C14_TabNoOp ==
    [][SentChar(TAB) => input' = input /\ hist' = hist]_vars

\* C14 witness: the tab was sent with the cursor inside a non-empty buffer
\* while browsing history.
C14_Witness ==
    /\ last = Call("send_char", <<TAB>>, Ok)
    /\ input.curs > 0
    /\ input.curs < Len(input.text)
    /\ hist.curs > 0

\* C15: the Down key always replaces the whole edit buffer with the line
\* returned by line_down and puts the edit cursor at its end; when the
\* history cursor is 0 or 1 before the key the buffer becomes empty with
\* cursor 0, whatever it held.
C15_DownInstalls ==
    [][SentKey("Down") =>
          /\ line_down(hist).ret # None
          /\ input'.text = line_down(hist).ret[1]
          /\ input'.curs = Len(input'.text)
          /\ hist' = line_down(hist).self
          /\ hist.curs \in {0, 1} => input' = InputNew
          /\ hist.curs >= 2 =>
                /\ hist.curs - 1 <= Len(hist.lines)
                /\ input'.text = hist.lines[hist.curs - 1]]_vars

\* C15 witness: the Down key emptied the buffer at the newest history line.
C15_Witness ==
    /\ last = Call("send_key", <<"Down">>, Ok)
    /\ hist.lines # <<>>
    /\ hist.curs = 0
    /\ input = InputNew

\* C16: when line_up returns a line the Up key replaces the whole edit
\* buffer with it and puts the edit cursor at its end; when line_up reports
\* no further history the Up key leaves the edit buffer, the edit cursor and
\* the history unchanged.
C16_UpKey ==
    [][SentKey("Up") =>
          IF Len(hist.lines) = 0 \/ hist.curs = Len(hist.lines)
          THEN input' = input /\ hist' = hist
          ELSE /\ hist.curs < Len(hist.lines)
               /\ input'.text = hist.lines[hist.curs + 1]
               /\ input'.curs = Len(input'.text)
               /\ hist'.curs = hist.curs + 1
               /\ hist'.lines = hist.lines]_vars

\* C16 witness: the Up key installed the older of two different lines.
C16_Witness ==
    /\ last = Call("send_key", <<"Up">>, Ok)
    /\ Len(hist.lines) = 2
    /\ hist.curs = 2
    /\ hist.lines[1] # hist.lines[2]
    /\ input.text = hist.lines[2]
    /\ input.curs = Len(input.text)

\* C19: in send_char the backspace character has exactly the effect of
\* backspace (it removes the character before the cursor and decrements the
\* cursor when cursor > 0, and does nothing at cursor 0), the delete
\* character has exactly the effect of delete, and every character other
\* than carriage-return, backspace, delete and tab is inserted at the cursor
\* with the cursor advancing by one and the length growing by one.
C19_CharClasses ==
    [][last'.op = "send_char" =>
          LET c == last'.arg[1]
              text == input.text
              curs == input.curs
          IN  /\ c = BS =>
                    /\ input' = backspace(input)
                    /\ hist' = hist
                    /\ IF curs > 0
                       THEN /\ input'.curs = curs - 1
                            /\ input'.text = SubSeq(text, 1, curs - 1)
                                             \o SubSeq(text, curs + 1, Len(text))
                       ELSE input' = input
              /\ c = DEL => input' = delete(input) /\ hist' = hist
              /\ c \notin {CR, BS, DEL, TAB} =>
                    /\ input'.text = SubSeq(text, 1, curs) \o <<c>>
                                     \o SubSeq(text, curs + 1, Len(text))
                    /\ input'.curs = curs + 1
                    /\ Len(input'.text) = Len(text) + 1
                    /\ hist' = hist]_vars

\* C19 witness: a space was inserted between two other characters.
C19_Witness ==
    /\ last = Call("send_char", <<" ">>, Ok)
    /\ Len(input.text) = 3
    /\ input.curs = 2
    /\ input.text = <<"a", " ", "a">>

\* C20: the Right key increases the edit cursor by one when cursor < length
\* and does nothing at the end; the Left key decreases it by one when
\* cursor > 0 and does nothing at 0; neither changes the text or the
\* history; every other key than Up, Down, Left and Right leaves the whole
\* console state unchanged.
C20_CursorKeys ==
    [][last'.op = "send_key" =>
          LET key == last'.arg[1] IN
          /\ key = "Right" =>
                /\ input'.curs = IF input.curs < Len(input.text)
                                 THEN input.curs + 1 ELSE input.curs
                /\ input'.text = input.text
                /\ hist' = hist
          /\ key = "Left" =>
                /\ input'.curs = IF input.curs > 0
                                 THEN input.curs - 1 ELSE input.curs
                /\ input'.text = input.text
                /\ hist' = hist
          /\ key \notin {"Up", "Down", "Left", "Right"} =>
                input' = input /\ hist' = hist /\ panicked' = panicked]_vars

\* C20 witness: the Left key was sent at cursor 0 of a recalled line.
C20_Witness ==
    /\ last = Call("send_key", <<"Left">>, Ok)
    /\ input.curs = 0
    /\ Len(input.text) >= 2
    /\ hist.curs > 0
    /\ input.text = hist.lines[hist.curs]

\* C22: a carriage-return sent while the edit buffer is empty or
\* whitespace-only leaves the whole console state unchanged: the text stays
\* in the edit buffer, the edit cursor keeps its position and the history
\* navigation cursor is not reset to 0.
C22_BlankCommitFrame ==
    [][(SentChar(CR) /\ ~NonBlank(input.text)) =>
          /\ input'.text = input.text
          /\ input'.curs = input.curs
          /\ hist'.lines = hist.lines
          /\ hist'.curs = hist.curs
          /\ ~panicked']_vars

\* C22 witness: the carriage-return was sent on a whitespace-only buffer
\* with the edit cursor inside it, during a history browse.
C22_Witness ==
    /\ last = Call("send_char", <<CR>>, Ok)
    /\ Len(input.text) >= 2
    /\ ~NonBlank(input.text)
    /\ input.curs > 0
    /\ input.curs < Len(input.text)
    /\ hist.curs > 0

\* C23: after every event of any sequence of send_char and send_key from a
\* new Console, 0 <= edit cursor <= buffer length and 0 <= history cursor <=
\* number of history lines, so the slices of debug_string and the accesses
\* lines[curs - 1] of line_up and line_down are in bounds: no event panics.
C23_ConsoleCursors ==
    /\ 0 <= input.curs
    /\ input.curs <= Len(input.text)
    /\ 0 <= hist.curs
    /\ hist.curs <= Len(hist.lines)
    /\ ~debug_string_panics(console)
    /\ ~line_down_panics(hist)
    /\ ~panicked

\* C23 witness: the Down key came back from a longer line to a shorter one,
\* and the edit cursor followed to the end of the shorter line.
C23_Witness ==
    /\ last = Call("send_key", <<"Down">>, Ok)
    /\ Len(hist.lines) >= 2
    /\ hist.curs = 1
    /\ Len(hist.lines[2]) > Len(hist.lines[1])
    /\ input.text = hist.lines[1]
    /\ input.curs = Len(input.text)

\* C24: the stored history lines change only on a carriage-return with a
\* non-blank buffer, and the history cursor changes only on such a commit or
\* on the Up and Down keys; inserting, backspacing, deleting, tab, Left and
\* Right change neither, so editing a recalled line never alters the stored
\* line, and an Up after editing a recalled line continues from the old
\* navigation position to the next older line.
C24_HistoryFrame ==
    [][/\ hist'.lines # hist.lines =>
             /\ SentChar(CR)
             /\ NonBlank(input.text)
             /\ hist'.lines = <<input.text>> \o hist.lines
       /\ hist'.curs # hist.curs =>
             \/ SentChar(CR) /\ NonBlank(input.text)
             \/ SentKey("Up")
             \/ SentKey("Down")
       /\ (last'.op = "send_char" /\ last'.arg[1] # CR) => hist' = hist
       /\ (last'.op = "send_key" /\ last'.arg[1] \notin {"Up", "Down"}) =>
             hist' = hist
       /\ (/\ SentKey("Up")
           /\ last.op = "send_char"
           /\ last.arg[1] # CR
           /\ hist.curs > 0
           /\ hist.curs < Len(hist.lines)) =>
             /\ hist'.curs = hist.curs + 1
             /\ input'.text = hist.lines[hist.curs + 1]]_vars

\* C24 witness: a character was typed into a recalled line, which now differs
\* from the stored line it came from, with an older line still to recall.
C24_Witness ==
    /\ last.op = "send_char"
    /\ last.arg[1] \in TextChars
    /\ hist.curs = 1
    /\ Len(hist.lines) = 2
    /\ Len(input.text) = Len(hist.lines[1]) + 1
    /\ input.text # hist.lines[1]
    /\ hist.lines[2] # hist.lines[1]

====
